---- MODULE Spec2Model ----
(***************************************************************************)
(* A model of gsearch's server (src/server.py): the prefix router behind   *)
(* /search, the proxy behind /api/search, the subreddit cache, the         *)
(* bookmark collection and the slash-command table; and of one run of the  *)
(* deploy script (src/mgmt/deploy.py).                                     *)
(*                                                                         *)
(* The server is one asyncio event loop: the code between two awaits runs  *)
(* atomically, so every action below is the code of one handler from one   *)
(* suspension point to the next.  Acquiring an asyncio.Lock is a           *)
(* suspension point of its own (the coroutine waits while the lock is      *)
(* held), so "acquire" and "critical section" are separate actions.        *)
(*                                                                         *)
(* Strings are sequences of tokens: one-character tokens wherever the code *)
(* slices or compares characters (queries, bookmark names), whole literals *)
(* for the fixed parts of templates.  The empty string is <<>>.            *)
(* Optional values are None == <<>> and Some(x) == <<x>>.                  *)
(***************************************************************************)
EXTENDS Integers, Sequences, FiniteSets, TLC

VARIABLES
    config_cache,       \* JSONConfig: /reddit/cache/<key> -> str, keys set so far
    config_bookmarks,   \* JSONConfig: /bookmarks, a list of dicts
    config_model,       \* JSONConfig: /openai/model
    config_system,      \* JSONConfig: /openai/system
    ai_model,           \* AI.model
    ai_system,          \* AI.system
    ai_max_prompt,      \* AI.max_prompt
    query_cache_lock,   \* RedditCache.query_cache_lock: 0 (free) or the holder
    bookmarks_lock,     \* SearchAPI.bookmarks_lock: 0 (free) or the holder
    req,                \* the in-flight requests, one record per coroutine
    written,            \* history: key -> the message of the last cache write
    first_add,          \* history: name -> the bookmark of the first add of it
    last_set_model,     \* history: the argument of the last set-model command
    deploy              \* mgmt/deploy.py: the run of the deploy script

vars == << config_cache, config_bookmarks, config_model, config_system,
           ai_model, ai_system, ai_max_prompt, query_cache_lock,
           bookmarks_lock, req, written, first_add, last_set_model, deploy >>

---------------------------------------------------------------------------
(* Bounds of the model. *)

MaxTermLen == 1     \* the longest search term of a subreddit query
MaxQueryLen == 3    \* the longest query put to the router
MaxHistory == 2     \* the longest history a command carries

\* The coroutines that serve requests concurrently.
Procs == {1, 2}

---------------------------------------------------------------------------
(* Strings and optional values. *)

None == <<>>
Some(x) == <<x>>
Str(s) == <<s>>

SeqsUpTo(S, n) == UNION {[1..k -> S] : k \in 0..n}

\* str.startswith with a two-character prefix
StartsWith(q, pre) == Len(q) >= 2 /\ SubSeq(q, 1, 2) = pre

\* q[2:]
Drop2(q) == SubSeq(q, 3, Len(q))

\* The two-character prefix "<letter> "
Pfx(c) == <<c, " ">>

\* str.lower(), character by character
LowerChar(c) ==
    CASE c = "X" -> "x"
      [] c = "Y" -> "y"
      [] OTHER -> c

Lower(s) == [i \in 1..Len(s) |-> LowerChar(s[i])]

\* str.replace(".", " ")
Decode(raw) == [i \in 1..Len(raw) |-> IF raw[i] = "." THEN " " ELSE raw[i]]

---------------------------------------------------------------------------
(* The persisted configuration store (JSONConfig), by its get/set contract. *)

\* config.get_str("/reddit/cache/<key>", "")
ConfigGetCache(cache, key) == IF key \in DOMAIN cache THEN cache[key] ELSE <<>>

\* A set that keeps the value a key already has.
ConfigSetCacheIfAbsent(cache, key, value) ==
    [k \in DOMAIN cache \cup {key} |-> IF k \in DOMAIN cache THEN cache[k] ELSE value]

\* config.set("/reddit/cache/<key>", value)
ConfigSetCache(cache, key, value) ==
    [k \in DOMAIN cache \cup {key} |-> IF k = key THEN value ELSE cache[k]]

---------------------------------------------------------------------------
(* asyncio.Lock: 0 when free, else the coroutine that holds it. *)

\* A block that leaves with the lock still held.
LockKept(lock, p) == lock

\* The end of an `async with lock` block entered by p
LockRelease(lock, p) == IF lock = p THEN 0 ELSE lock

---------------------------------------------------------------------------
(* Requests. *)

Idle ==
    [ route     |-> "none",   \* the handler serving the request
      pc        |-> "idle",   \* where the coroutine is suspended
      q         |-> <<>>,     \* the decoded query
      arg       |-> <<>>,     \* the argument of the pending awaited call
      location  |-> None,     \* __rdr's location
      status    |-> "",       \* the HTTP status of the response
      body      |-> None,     \* the response body of /api/search
      gcse_data |-> None,     \* the body GoogleRequestHandler.get returned
      exc       |-> "",       \* the exception that left the handler, if any
      upstream  |-> "",       \* how the awaited upstream call ended
      nget      |-> 0,        \* search-provider attempts made for this request
      session   |-> 0,        \* the ClientSession open for this request, 0 if none
      nchat     |-> 0,        \* chat-completion calls made for this request
      msgs      |-> <<>>,     \* the messages of the chat-completion call
      msg       |-> <<>>,     \* ChatResponse.message
      persisted |-> FALSE,    \* history: this request wrote the cache
      found     |-> None,     \* history: what the cache held for the key when read
      after     |-> FALSE,    \* history: a lookup of the key had completed on arrival
      bookmark  |-> None,     \* the Bookmark built from the posted body
      cmd       |-> <<>>,     \* UserCommand.cmd
      args      |-> <<>>,     \* UserCommand.args
      history   |-> <<>>,     \* UserCommand.history, of a chat command
      data      |-> <<>>,     \* CmdResponse.data
      markdown  |-> FALSE,    \* CmdResponse.markdown
      error     |-> <<>>,     \* CmdResponse.error / the error text
      expect    |-> None ]    \* history: last_set_model when a model get ran

Fresh(route) == [Idle EXCEPT !.route = route]

\* The handler returns a response with this status.
Respond(r, status) == [r EXCEPT !.pc = "done", !.status = status]

\* An exception leaves the handler: aiohttp answers 500 and keeps serving.
Unhandled(r, exc) ==
    [r EXCEPT !.pc = "done", !.status = "INTERNAL_SERVER_ERROR", !.exc = exc]

---------------------------------------------------------------------------
(* AI.chat: the chat-completion call. *)

\* The default of /openai/max_prompt
DEF_MAX_PROMPT == 12

\* history[-self.max_prompt:]
LastTurns(history, n) ==
    IF n = 0 \/ Len(history) <= n
    THEN history
    ELSE SubSeq(history, Len(history) - n + 1, Len(history))

\* The messages AI.chat sends: the system message, then the kept turns.
ChatMessages(history, prompt, system, n) ==
    LET kept == LastTurns(history, n)
    IN  << [role |-> "system",
            content |-> IF prompt # None THEN prompt[1] ELSE system] >>
        \o [i \in 1..Len(kept) |->
              [role |-> IF kept[i].role = "user" THEN "user" ELSE "assistant",
               content |-> kept[i].content]]

\* ChatResponse.message, from comp.choices[0].message.content
ChatResponseMessage(content) ==
    IF content # None
    THEN content[1]
    ELSE Str("empty response from completions API")

\* What the completions API can answer: no content, the empty text, a text.
ChatContents ==
    {None, Some(<<>>), Some(Str("/r/foo")), Some(Str("/r/bar"))}

\* The call returns a completion or raises (network error, API error).
ChatOutcomes ==
    [raised : {FALSE}, content : ChatContents]
        \cup {[raised |-> TRUE, content |-> None]}

---------------------------------------------------------------------------
(* GoogleRequestHandler.get and the body it returns. *)

Urls == {Str("http://u1"), Str("http://u2")}

\* A search item: a dict with or without "link".
Items == [link : {None} \cup {Some(u) : u \in Urls}]

\* A body: b'' or a JSON object with or without "items".
ProviderBodies ==
    {[empty |-> TRUE, items |-> None]}
        \cup [empty : {FALSE},
              items : {None} \cup {Some(s) : s \in SeqsUpTo(Items, 1)}]
        \cup {[empty |-> FALSE,
               items |-> Some(<< [link |-> None], [link |-> Some(Str("http://u2"))] >>)]}

\* One session object that every call of get uses.
SharedSession(requests) == 1

\* aiohttp.ClientSession(): a new object, distinct from every session that
\* is still open.
NewSession(requests) ==
    CHOOSE s \in 1..Cardinality(Procs) :
        \A o \in Procs : requests[o].session # s

\* s.get(...) returns a body (whatever the HTTP status) or raises.
GetOutcomes ==
    [raised : {FALSE}, data : ProviderBodies]
        \cup {[raised |-> TRUE, data |-> [empty |-> TRUE, items |-> None]]}

\* SearchAPI.__get_lucky_url: the first item's link, None, or an exception.
GetLuckyUrl(gcse_data) ==
    IF gcse_data.empty
    THEN [exc |-> "JSONDecodeError", location |-> None]
    ELSE IF gcse_data.items = None
    THEN [exc |-> "", location |-> None]
    ELSE IF Len(gcse_data.items[1]) = 0
    THEN [exc |-> "IndexError", location |-> None]
    ELSE IF gcse_data.items[1][1].link = None
    THEN [exc |-> "", location |-> None]
    ELSE [exc |-> "", location |-> Some(gcse_data.items[1][1].link[1])]

---------------------------------------------------------------------------
(* SearchAPI.__rdr, up to its first await. *)

Amazon(q) == Str("https://www.amazon.ca/s?k=") \o q
ChatUi(q) == Str("/chat.html?q=") \o q
Google(q) == Str("https://google.com/search?q=") \o q
Images(q) == Str("https://www.google.com/search?q=") \o q \o Str("&tbm=isch")
Maps(q) == Str("https://www.google.com/maps/search/") \o q \o Str("/")
Reddit(sub) == Str("https://old.reddit.com") \o sub
Wikipedia(q) == Drop2(q) \o Str(" wikipedia")

\* The first statement: `if q.startswith("a ")`, which rebinds q.
RdrAmazon(q) ==
    IF StartsWith(q, Pfx("a"))
    THEN [q |-> Drop2(q), location |-> Some(Amazon(Drop2(q)))]
    ELSE [q |-> q, location |-> None]

\* A chain whose last branch sends the query to the search provider.
RdrChainProxying(q, location) ==
    IF \E c \in {"b", "c", "g", "i", "l", "m", "r", "w"} : StartsWith(q, Pfx(c))
    THEN [pc |-> "return", arg |-> <<>>, location |-> location]
    ELSE [pc |-> "get", arg |-> q, location |-> location]

\* The if/elif chain that follows, applied to the q the first statement left.
\* pc is where __rdr goes next: it returns, or awaits a lookup or a call.
RdrChain(q, location) ==
    IF StartsWith(q, Pfx("b"))
    THEN [pc |-> "bm_lock", arg |-> Drop2(q), location |-> location]
    ELSE IF StartsWith(q, Pfx("c"))
    THEN [pc |-> "return", arg |-> <<>>, location |-> Some(ChatUi(Drop2(q)))]
    ELSE IF StartsWith(q, Pfx("g"))
    THEN [pc |-> "return", arg |-> <<>>, location |-> Some(Google(Drop2(q)))]
    ELSE IF StartsWith(q, Pfx("i"))
    THEN [pc |-> "return", arg |-> <<>>, location |-> Some(Images(Drop2(q)))]
    ELSE IF StartsWith(q, Pfx("l"))
    THEN [pc |-> "get", arg |-> Drop2(q), location |-> location]
    ELSE IF StartsWith(q, Pfx("m"))
    THEN [pc |-> "return", arg |-> <<>>, location |-> Some(Maps(Drop2(q)))]
    ELSE IF StartsWith(q, Pfx("r"))
    THEN [pc |-> "cache_lock", arg |-> Drop2(q), location |-> location]
    ELSE IF StartsWith(q, Pfx("w"))
    THEN [pc |-> "get", arg |-> Wikipedia(q), location |-> location]
    ELSE [pc |-> "return", arg |-> <<>>, location |-> location]

Rdr(q) == RdrChain(RdrAmazon(q).q, RdrAmazon(q).location)

\* SearchAPI.search once __rdr has returned: a redirect or the default page.
SearchResponse(r, location) ==
    IF location # None
    THEN Respond([r EXCEPT !.location = location], "FOUND")
    ELSE Respond([r EXCEPT !.location = None], "OK")

---------------------------------------------------------------------------
(* GET /search: SearchAPI.search and SearchAPI.__rdr. *)

\* search() up to __rdr's first await.  rawq is the q parameter, if given.
SearchRecv(p, rawq) ==
    /\ req[p].pc = "idle"
    /\ IF rawq = None
       THEN req' = [req EXCEPT ![p] = Respond(Fresh("search"), "BAD_REQUEST")]
       ELSE LET q == Decode(rawq[1])
                d == Rdr(q)
                r == [Fresh("search") EXCEPT
                        !.q = q, !.arg = d.arg, !.location = d.location,
                        !.after = (d.pc = "cache_lock"
                                   /\ Lower(d.arg) \in DOMAIN written)]
            IN  req' = [req EXCEPT ![p] =
                          CASE d.pc = "return" -> SearchResponse(r, d.location)
                            [] d.pc = "get" -> [r EXCEPT !.pc = "get", !.nget = 1,
                                                         !.session = NewSession(req)]
                            [] OTHER -> [r EXCEPT !.pc = d.pc]]
    /\ UNCHANGED << deploy, config_cache, config_bookmarks, config_model, config_system,
                    ai_model, ai_system, ai_max_prompt, query_cache_lock,
                    bookmarks_lock, written, first_add, last_set_model >>

\* The response has been sent: the coroutine ends.
Reply(p) ==
    /\ req[p].pc = "done"
    /\ req' = [req EXCEPT ![p] = Idle]
    /\ UNCHANGED << deploy, config_cache, config_bookmarks, config_model, config_system,
                    ai_model, ai_system, ai_max_prompt, query_cache_lock,
                    bookmarks_lock, written, first_add, last_set_model >>

---------------------------------------------------------------------------
(* SearchAPI.__find_bookmark, for the "b " row. *)

\* A comparison of the name alone.
BookmarkMatchesName(b, q) == b.name = q

\* bookmark.name == q or bookmark.shortcut == q
BookmarkMatches(b, q) == b.name = q \/ b.shortcut = Some(q)

\* The first stored bookmark that matches, or None.
FindBookmark(bookmarks, q) ==
    LET hits == {i \in 1..Len(bookmarks) : BookmarkMatches(bookmarks[i], q)}
    IN  IF hits = {}
        THEN None
        ELSE Some(bookmarks[CHOOSE i \in hits : \A j \in hits : i <= j])

\* async with self.bookmarks_lock, in __find_bookmark
FindBookmarkLock(p) ==
    /\ req[p].pc = "bm_lock"
    /\ bookmarks_lock = 0
    /\ bookmarks_lock' = p
    /\ req' = [req EXCEPT ![p].pc = "bm_find"]
    /\ UNCHANGED << deploy, config_cache, config_bookmarks, config_model, config_system,
                    ai_model, ai_system, ai_max_prompt, query_cache_lock,
                    written, first_add, last_set_model >>

\* The loop under the lock, then search()'s response.
FindBookmarkReturn(p) ==
    /\ req[p].pc = "bm_find"
    /\ bookmarks_lock = p
    /\ bookmarks_lock' = LockRelease(bookmarks_lock, p)
    /\ LET b == FindBookmark(config_bookmarks, req[p].arg)
       IN  req' = [req EXCEPT ![p] =
                     SearchResponse(@, IF b # None THEN Some(b[1].url)
                                                    ELSE req[p].location)]
    /\ UNCHANGED << deploy, config_cache, config_bookmarks, config_model, config_system,
                    ai_model, ai_system, ai_max_prompt, query_cache_lock,
                    written, first_add, last_set_model >>

---------------------------------------------------------------------------
(* GoogleRequestHandler.get returning, to __rdr ("l ", "w ") or api_search. *)

\* GET /api/search up to the await of google_request.get
ApiSearchRecv(p, rawq) ==
    /\ req[p].pc = "idle"
    /\ IF rawq = None
       THEN req' = [req EXCEPT ![p] = Respond(Fresh("api_search"), "BAD_REQUEST")]
       ELSE req' = [req EXCEPT ![p] =
                      [Fresh("api_search") EXCEPT
                         !.q = Decode(rawq[1]), !.arg = Decode(rawq[1]),
                         !.pc = "get", !.nget = 1,
                         !.session = NewSession(req)]]
    /\ UNCHANGED << deploy, config_cache, config_bookmarks, config_model, config_system,
                    ai_model, ai_system, ai_max_prompt, query_cache_lock,
                    bookmarks_lock, written, first_add, last_set_model >>

\* api_search() after the await: the body, or NOT_FOUND for b''.
ApiSearchResponse(r, data) ==
    IF ~data.empty
    THEN Respond([r EXCEPT !.body = Some(data)], "OK")
    ELSE Respond(r, "NOT_FOUND")

\* The one s.get of GoogleRequestHandler.get ends: a body or an exception.
\* An exception is caught by nothing in get, __rdr, search or api_search.
GoogleGetReturn(p, out) ==
    /\ req[p].pc = "get"
    /\ LET r == [req[p] EXCEPT
                    !.session = 0,
                    !.upstream = IF out.raised THEN "conn_error" ELSE "ok",
                    !.gcse_data = IF out.raised THEN None ELSE Some(out.data)]
           lucky == GetLuckyUrl(out.data)
       IN  req' = [req EXCEPT ![p] =
                     IF out.raised
                     THEN Unhandled(r, "ClientConnectionError")
                     ELSE IF r.route = "api_search"
                     THEN ApiSearchResponse(r, out.data)
                     ELSE IF lucky.exc # ""
                     THEN Unhandled(r, lucky.exc)
                     ELSE SearchResponse(r, lucky.location)]
    /\ UNCHANGED << deploy, config_cache, config_bookmarks, config_model, config_system,
                    ai_model, ai_system, ai_max_prompt, query_cache_lock,
                    bookmarks_lock, written, first_add, last_set_model >>

---------------------------------------------------------------------------
(* RedditCache.get_sub_from_string, for the "r " row. *)

\* The key as given, in whatever letter case.
CacheKeyAsGiven(string) == string

\* string = string.lower()
CacheKey(string) == Lower(string)

\* The question put to the chat model.
RedditQuestion(string) ==
    Str("what is the sub reddit for ") \o string
        \o Str(". Just return the name of the subreddit starting with /r/ and nothing else")

\* The first async with self.query_cache_lock
CacheLockRead(p) ==
    /\ req[p].pc = "cache_lock"
    /\ query_cache_lock = 0
    /\ query_cache_lock' = p
    /\ req' = [req EXCEPT ![p].pc = "cache_read"]
    /\ UNCHANGED << deploy, config_cache, config_bookmarks, config_model, config_system,
                    ai_model, ai_system, ai_max_prompt, bookmarks_lock,
                    written, first_add, last_set_model >>

\* The read under the lock: a hit returns, a miss goes on to await ai.chat.
CacheRead(p) ==
    /\ req[p].pc = "cache_read"
    /\ query_cache_lock = p
    /\ query_cache_lock' = LockRelease(query_cache_lock, p)
    /\ LET string == CacheKey(req[p].arg)
           sub == ConfigGetCache(config_cache, string)
           r == [req[p] EXCEPT
                   !.found = Some(ConfigGetCache(config_cache, Lower(req[p].arg)))]
       IN  req' = [req EXCEPT ![p] =
                     IF sub # <<>>
                     THEN SearchResponse(r, Some(Reddit(sub)))
                     ELSE [r EXCEPT
                             !.pc = "chat", !.nchat = @ + 1,
                             !.msgs = ChatMessages(
                                 << [role |-> "user",
                                     content |-> RedditQuestion(string)] >>,
                                 Some(Str("you are usefull assistant")),
                                 ai_system, ai_max_prompt)]]
    /\ UNCHANGED << deploy, config_cache, config_bookmarks, config_model, config_system,
                    ai_model, ai_system, ai_max_prompt, bookmarks_lock,
                    written, first_add, last_set_model >>

\* ai.chat returns to get_sub_from_string, or raises through it and search().
RedditChatReturn(p, out) ==
    /\ req[p].pc = "chat"
    /\ req[p].route = "search"
    /\ req' = [req EXCEPT ![p] =
                 IF out.raised
                 THEN Unhandled([@ EXCEPT !.upstream = "raised"], "APIError")
                 ELSE [@ EXCEPT
                         !.pc = "cache_lock2",
                         !.upstream = IF out.content = None THEN "no_content"
                                                            ELSE "content",
                         !.msg = ChatResponseMessage(out.content)]]
    /\ UNCHANGED << deploy, config_cache, config_bookmarks, config_model, config_system,
                    ai_model, ai_system, ai_max_prompt, query_cache_lock,
                    bookmarks_lock, written, first_add, last_set_model >>

\* The second async with self.query_cache_lock
CacheLockWrite(p) ==
    /\ req[p].pc = "cache_lock2"
    /\ query_cache_lock = 0
    /\ query_cache_lock' = p
    /\ req' = [req EXCEPT ![p].pc = "cache_write"]
    /\ UNCHANGED << deploy, config_cache, config_bookmarks, config_model, config_system,
                    ai_model, ai_system, ai_max_prompt, bookmarks_lock,
                    written, first_add, last_set_model >>

\* The write under the lock, the return of r.message, search()'s response.
CacheWrite(p) ==
    /\ req[p].pc = "cache_write"
    /\ query_cache_lock = p
    /\ query_cache_lock' = LockRelease(query_cache_lock, p)
    /\ config_cache' =
         ConfigSetCache(config_cache, CacheKey(req[p].arg), req[p].msg)
    /\ written' =
         [k \in DOMAIN written \cup {Lower(req[p].arg)} |->
            IF k = Lower(req[p].arg) THEN req[p].msg ELSE written[k]]
    /\ req' = [req EXCEPT ![p] =
                 SearchResponse([@ EXCEPT !.persisted = TRUE],
                                Some(Reddit(req[p].msg)))]
    /\ UNCHANGED << deploy, config_bookmarks, config_model, config_system,
                    ai_model, ai_system, ai_max_prompt, bookmarks_lock,
                    first_add, last_set_model >>

---------------------------------------------------------------------------
(* POST /api/bookmarks/add, GET /api/bookmarks/rem, GET /api/bookmarks. *)

\* Posted bodies: not JSON at all, or an object with or without url and name.
PostedBookmarks ==
    {[json |-> FALSE, url |-> None, name |-> None, shortcut |-> None]}
        \cup [json : {TRUE},
              url : {None} \cup {Some(u) : u \in Urls},
              name : {None, Some(<<"x">>)},
              shortcut : {None}]

\* Bookmark(**user_data) and asdict(bookmark): url is required, name is "".
AsBookmark(user_data) ==
    [url |-> user_data.url[1],
     name |-> IF user_data.name = None THEN <<>> ELSE user_data.name[1],
     shortcut |-> user_data.shortcut]

\* A loop that looks at the first stored bookmark only.
NameExistsFirst(bookmarks, name) ==
    Len(bookmarks) > 0 /\ bookmarks[1].name = name

\* The loop of api_bookmarks_add: some stored bookmark has the name.
NameExists(bookmarks, name) ==
    \E i \in 1..Len(bookmarks) : bookmarks[i].name = name

\* An add that never looks for the name.
AddBookmarkAlways(bookmarks, bookmark) == Append(bookmarks, bookmark)

\* The critical section of api_bookmarks_add.
AddBookmark(bookmarks, bookmark) ==
    IF NameExists(bookmarks, bookmark.name)
    THEN bookmarks
    ELSE Append(bookmarks, bookmark)

\* A removal that reports what it found and removes nothing.
DelBookmarkReportOnly(bookmarks, name) ==
    [found |-> \E i \in 1..Len(bookmarks) : bookmarks[i].name = name,
     bookmarks |-> bookmarks]

\* The critical section of api_bookmarks_del: bookmarks.remove(b) for the
\* first b of the name, and whether there was one.
DelBookmark(bookmarks, name) ==
    LET hits == {i \in 1..Len(bookmarks) : bookmarks[i].name = name}
        first == CHOOSE i \in hits : \A j \in hits : i <= j
    IN  IF hits = {}
        THEN [found |-> FALSE, bookmarks |-> bookmarks]
        ELSE [found |-> TRUE,
              bookmarks |-> SubSeq(bookmarks, 1, first - 1)
                              \o SubSeq(bookmarks, first + 1, Len(bookmarks))]

\* api_bookmarks_add up to `await req.json()`
AddRecv(p) ==
    /\ req[p].pc = "idle"
    /\ req' = [req EXCEPT ![p] = [Fresh("bm_add") EXCEPT !.pc = "add_json"]]
    /\ UNCHANGED << deploy, config_cache, config_bookmarks, config_model, config_system,
                    ai_model, ai_system, ai_max_prompt, query_cache_lock,
                    bookmarks_lock, written, first_add, last_set_model >>

\* The body arrives: req.json() and Bookmark(**user_data) raise into the
\* except clauses (BAD_REQUEST), or the handler goes on to take the lock.
AddBody(p, user_data) ==
    /\ req[p].pc = "add_json"
    /\ req' = [req EXCEPT ![p] =
                 IF ~user_data.json
                 THEN Respond([@ EXCEPT !.error = Str("JSONDecodeError")],
                              "BAD_REQUEST")
                 ELSE IF user_data.url = None
                 THEN Respond([@ EXCEPT !.error = Str("TypeError")],
                              "BAD_REQUEST")
                 ELSE [@ EXCEPT !.pc = "add_lock",
                                !.bookmark = Some(AsBookmark(user_data))]]
    /\ UNCHANGED << deploy, config_cache, config_bookmarks, config_model, config_system,
                    ai_model, ai_system, ai_max_prompt, query_cache_lock,
                    bookmarks_lock, written, first_add, last_set_model >>

\* async with self.bookmarks_lock, in api_bookmarks_add
AddLock(p) ==
    /\ req[p].pc = "add_lock"
    /\ bookmarks_lock = 0
    /\ bookmarks_lock' = p
    /\ req' = [req EXCEPT ![p].pc = "add_crit"]
    /\ UNCHANGED << deploy, config_cache, config_bookmarks, config_model, config_system,
                    ai_model, ai_system, ai_max_prompt, query_cache_lock,
                    written, first_add, last_set_model >>

\* The critical section and the response.
AddCommit(p) ==
    /\ req[p].pc = "add_crit"
    /\ bookmarks_lock = p
    /\ bookmarks_lock' = LockRelease(bookmarks_lock, p)
    /\ LET b == req[p].bookmark[1]
           stored == \E i \in 1..Len(config_bookmarks) :
                          config_bookmarks[i].name = b.name
       IN  /\ config_bookmarks' = AddBookmark(config_bookmarks, b)
           /\ first_add' =
                IF stored \/ b.name \in DOMAIN first_add
                THEN first_add
                ELSE [n \in DOMAIN first_add \cup {b.name} |->
                        IF n = b.name THEN b ELSE first_add[n]]
    /\ req' = [req EXCEPT ![p] = Respond(@, "OK")]
    /\ UNCHANGED << deploy, config_cache, config_model, config_system,
                    ai_model, ai_system, ai_max_prompt, query_cache_lock,
                    written, last_set_model >>

\* api_bookmarks_del up to the lock.  name is the name parameter, if given.
DelRecv(p, name) ==
    /\ req[p].pc = "idle"
    /\ req' = [req EXCEPT ![p] =
                 IF name = None
                 THEN Respond(Fresh("bm_del"), "BAD_REQUEST")
                 ELSE [Fresh("bm_del") EXCEPT !.pc = "del_lock", !.arg = name[1]]]
    /\ UNCHANGED << deploy, config_cache, config_bookmarks, config_model, config_system,
                    ai_model, ai_system, ai_max_prompt, query_cache_lock,
                    bookmarks_lock, written, first_add, last_set_model >>

\* async with self.bookmarks_lock, in api_bookmarks_del
DelLock(p) ==
    /\ req[p].pc = "del_lock"
    /\ bookmarks_lock = 0
    /\ bookmarks_lock' = p
    /\ req' = [req EXCEPT ![p].pc = "del_crit"]
    /\ UNCHANGED << deploy, config_cache, config_bookmarks, config_model, config_system,
                    ai_model, ai_system, ai_max_prompt, query_cache_lock,
                    written, first_add, last_set_model >>

\* The critical section and the response.
DelCommit(p) ==
    /\ req[p].pc = "del_crit"
    /\ bookmarks_lock = p
    /\ bookmarks_lock' = LockRelease(bookmarks_lock, p)
    /\ LET d == DelBookmark(config_bookmarks, req[p].arg)
           left == \E i \in 1..Len(d.bookmarks) : d.bookmarks[i].name = req[p].arg
       IN  /\ config_bookmarks' = d.bookmarks
           /\ first_add' =
                IF left
                THEN first_add
                ELSE [n \in DOMAIN first_add \ {req[p].arg} |-> first_add[n]]
           /\ req' = [req EXCEPT ![p] =
                        Respond(@, IF d.found THEN "OK" ELSE "NOT_FOUND")]
    /\ UNCHANGED << deploy, config_cache, config_model, config_system,
                    ai_model, ai_system, ai_max_prompt, query_cache_lock,
                    written, last_set_model >>

---------------------------------------------------------------------------
(* POST /api/cmd: SearchAPI.api_cmd and CmdLine. *)

\* CmdLine.__commands, in table order.
Commands ==
    << [name |-> Str("/help"), help |-> "This", handler |-> "help", hidden |-> FALSE],
       [name |-> Str("/bookmarks"), help |-> "List, add, remove bookmarks",
        handler |-> "book", hidden |-> FALSE],
       [name |-> Str("/chat"), help |-> "LLM chat", handler |-> "chat", hidden |-> TRUE],
       [name |-> Str("/prompt"), help |-> "Get or change prompt",
        handler |-> "prompt", hidden |-> FALSE],
       [name |-> Str("/model"), help |-> "Get current model",
        handler |-> "model", hidden |-> FALSE],
       [name |-> Str("/uptime"), help |-> "Uptime", handler |-> "uptime", hidden |-> FALSE],
       [name |-> Str("/reset"), help |-> "Reset output", handler |-> "reset", hidden |-> FALSE],
       [name |-> Str("/clear"), help |-> "Clear output", handler |-> "reset", hidden |-> FALSE] >>

\* A lookup in which a name of no entry runs the handler of the last entry.
HandlerOfLastEntry(cmd) ==
    LET hits == {i \in 1..Len(Commands) : Commands[i].name = cmd}
    IN  Commands[IF hits = {} THEN Len(Commands)
                 ELSE CHOOSE i \in hits : \A j \in hits : i <= j].handler

\* CmdLine.handler's loop: the handler of the first entry of that name.
HandlerOf(cmd) ==
    LET hits == {i \in 1..Len(Commands) : Commands[i].name = cmd}
    IN  IF hits = {}
        THEN "unknown"
        ELSE Commands[CHOOSE i \in hits : \A j \in hits : i <= j].handler

RECURSIVE HelpLines(_)
\* CmdLine.help's loop over the entries from i on.
HelpLines(i) ==
    IF i > Len(Commands)
    THEN <<>>
    ELSE (IF Commands[i].hidden
          THEN <<>>
          ELSE Commands[i].name \o Str(Commands[i].help)) \o HelpLines(i + 1)

\* The text between the two code fences.
HelpText == Str("commands:") \o HelpLines(1)

\* A set_model that persists the model and leaves self.model as it was.
SetModelPersistOnly(mem, cfg, model) == [mem |-> mem, cfg |-> model, ret |-> mem]

\* AI.set_model: the in-memory model, the persisted model, the return value.
SetModel(mem, cfg, model) == [mem |-> model, cfg |-> model, ret |-> model]

\* A set_prompt that changes self.system and persists nothing.
SetPromptInMemoryOnly(mem, cfg, system) == [mem |-> system, cfg |-> cfg, ret |-> system]

\* AI.set_prompt, likewise.
SetPrompt(mem, cfg, system) == [mem |-> system, cfg |-> system, ret |-> system]

\* CmdLine.model: set if args is given, then AI.get_model.
CmdModel(mem, cfg, args) ==
    LET s == IF args # <<>> THEN SetModel(mem, cfg, args)
                            ELSE [mem |-> mem, cfg |-> cfg, ret |-> mem]
    IN  [mem |-> s.mem, cfg |-> s.cfg, data |-> s.mem]

\* A prompt handler that sets the prompt whatever args is.
CmdPromptAlwaysSets(mem, cfg, args) == [mem |-> args, cfg |-> args, data |-> args]

\* CmdLine.prompt: set if args is given, then AI.get_prompt.
CmdPrompt(mem, cfg, args) ==
    LET s == IF args # <<>> THEN SetPrompt(mem, cfg, args)
                            ELSE [mem |-> mem, cfg |-> cfg, ret |-> mem]
    IN  [mem |-> s.mem, cfg |-> s.cfg, data |-> s.mem]

\* A chat handler that checks nothing.
NeverMissing(args) == FALSE

\* CmdLine.chat's check that args is the empty string
MissingMessage(args) == args = <<>>

\* CmdLine.chat's hist: the supplied turns, then the new user turn.
ChatHist(history, args) ==
    [i \in 1..Len(history) |-> [role |-> history[i].role,
                                content |-> history[i].content]]
        \o << [role |-> "user", content |-> args] >>

\* What a client can post.
CmdNames ==
    {Commands[i].name : i \in 1..Len(Commands)} \cup {Str("model"), Str("/nope")}
Args == {<<>>, Str("gpt-x"), Str("gpt-y")}
Turns ==
    { [role |-> "user", content |-> Str("q1")],
      [role |-> "assistant", content |-> Str("a1")],
      [role |-> "user", content |-> Str("q2")] }
Histories == SeqsUpTo(Turns, MaxHistory)

PostedCommands ==
    {[json |-> FALSE, cmd |-> None, args |-> <<>>, history |-> <<>>]}
        \cup [json : {TRUE}, cmd : {None} \cup {Some(c) : c \in CmdNames},
              args : Args, history : Histories]

\* api_cmd up to `await req.json()`
CmdRecv(p) ==
    /\ req[p].pc = "idle"
    /\ req' = [req EXCEPT ![p] = [Fresh("cmd") EXCEPT !.pc = "cmd_json"]]
    /\ UNCHANGED << deploy, config_cache, config_bookmarks, config_model, config_system,
                    ai_model, ai_system, ai_max_prompt, query_cache_lock,
                    bookmarks_lock, written, first_add, last_set_model >>

\* The response of api_cmd when an exception reaches its except clauses.
CmdError(r, status, error) == Respond([r EXCEPT !.error = error], status)

\* The response of api_cmd when the handler returns.
CmdOk(r, data, markdown) ==
    Respond([r EXCEPT !.data = data, !.markdown = markdown], "OK")

\* A reset that returns an empty response.
CmdResetReturns(r) == CmdOk(r, <<>>, FALSE)

\* CmdLine.reset raises NotImplementedError into api_cmd's first except.
CmdReset(r) == CmdError(r, "NOT_IMPLEMENTED", Str("Should be implemented in JS"))

\* The body arrives: UserCommand(**user_data), CmdLine.handler and the
\* handler it finds, up to the handler's first await or its end.
CmdBody(p, user_data) ==
    /\ req[p].pc = "cmd_json"
    /\ LET h == IF ~user_data.json THEN "bad_json"
                ELSE IF user_data.cmd = None THEN "bad_cmd"
                ELSE HandlerOf(user_data.cmd[1])
           args == user_data.args
           r == [req[p] EXCEPT
                   !.cmd = IF user_data.cmd = None THEN <<>> ELSE user_data.cmd[1],
                   !.args = args,
                   !.history = IF user_data.json THEN user_data.history ELSE <<>>]
           m == CmdModel(ai_model, config_model, args)
           s == CmdPrompt(ai_system, config_system, args)
       IN  /\ ai_model' = IF h = "model" THEN m.mem ELSE ai_model
           /\ config_model' = IF h = "model" THEN m.cfg ELSE config_model
           /\ last_set_model' = IF h = "model" /\ args # <<>>
                                THEN Some(args) ELSE last_set_model
           /\ ai_system' = IF h = "prompt" THEN s.mem ELSE ai_system
           /\ config_system' = IF h = "prompt" THEN s.cfg ELSE config_system
           /\ req' = [req EXCEPT ![p] =
                CASE h = "bad_json" ->
                       CmdError(r, "BAD_REQUEST", Str("JSONDecodeError"))
                  [] h = "bad_cmd" ->
                       CmdError(r, "BAD_REQUEST", Str("TypeError"))
                  [] h = "unknown" ->
                       CmdOk(r, Str("Unknown command ") \o r.cmd, TRUE)
                  [] h = "help" -> CmdOk(r, HelpText, TRUE)
                  [] h = "book" ->
                       CmdError(r, "NOT_IMPLEMENTED", Str("Implemented in JS"))
                  [] h = "chat" ->
                       IF MissingMessage(args)
                       THEN CmdError(r, "BAD_REQUEST", Str("Missing message"))
                       ELSE [r EXCEPT
                               !.pc = "chat", !.nchat = @ + 1,
                               !.msgs = ChatMessages(
                                   ChatHist(user_data.history, args), None,
                                   ai_system, ai_max_prompt)]
                  [] h = "prompt" -> CmdOk(r, s.data, FALSE)
                  [] h = "model" ->
                       CmdOk([r EXCEPT !.expect = last_set_model'], m.data, FALSE)
                  [] h = "uptime" -> [r EXCEPT !.pc = "exec"]
                  [] h = "reset" -> CmdReset(r)]
    /\ UNCHANGED << deploy, config_cache, config_bookmarks, ai_max_prompt,
                    query_cache_lock, bookmarks_lock, written, first_add >>

\* ai.chat returns to CmdLine.chat, or raises into api_cmd's last except.
CmdChatReturn(p, out) ==
    /\ req[p].pc = "chat"
    /\ req[p].route = "cmd"
    /\ req' = [req EXCEPT ![p] =
                 IF out.raised
                 THEN Respond([@ EXCEPT !.upstream = "raised"], "BAD_REQUEST")
                 ELSE CmdOk([@ EXCEPT
                               !.upstream = IF out.content = None THEN "no_content"
                                                                  ELSE "content",
                               !.msg = ChatResponseMessage(out.content)],
                            ChatResponseMessage(out.content), TRUE)]
    /\ UNCHANGED << deploy, config_cache, config_bookmarks, config_model, config_system,
                    ai_model, ai_system, ai_max_prompt, query_cache_lock,
                    bookmarks_lock, written, first_add, last_set_model >>

\* /usr/bin/uptime ends: CmdLine.uptime wraps its stdout.
CmdUptimeReturn(p, stdout) ==
    /\ req[p].pc = "exec"
    /\ req' = [req EXCEPT ![p] = CmdOk(@, Str("uptime: ") \o stdout, TRUE)]
    /\ UNCHANGED << deploy, config_cache, config_bookmarks, config_model, config_system,
                    ai_model, ai_system, ai_max_prompt, query_cache_lock,
                    bookmarks_lock, written, first_add, last_set_model >>

---------------------------------------------------------------------------
(* mgmt/deploy.py: one run of main().  Every shell command is a step whose  *)
(* outcome the environment chooses.                                         *)

NotRun ==
    [ pc      |-> "idle",   \* the command main() is about to issue, or how it ended
      phase   |-> "try",    \* "try": the try block; "cleanup": the except block
      stop    |-> FALSE,    \* args.stop
      status  |-> 1,        \* main's status, the exit status of the script
      issued  |-> <<>> ]    \* history: the commands issued, with their outcomes

\* exec_cmd has run cmd; ok tells whether it returned 0.
Issued(d, cmd, ok) ==
    [d EXCEPT !.issued = Append(@, [cmd |-> cmd, phase |-> d.phase, ok |-> ok])]

\* exec_cmd raises ShellException: in the try block main goes to its except
\* block, which starts with docker_stop; in the except block the exception
\* leaves main and the interpreter exits with status 1.
Raise(d) ==
    IF d.phase = "try"
    THEN [d EXCEPT !.phase = "cleanup", !.pc = "ps"]
    ELSE [d EXCEPT !.pc = "crashed", !.status = 1]

\* docker_stop has returned: with --stop the try block is over and main
\* returns 0; otherwise, and always in the except block, the build is next.
AfterStop(d) ==
    IF d.phase = "try" /\ d.stop
    THEN [d EXCEPT !.pc = "returned", !.status = 0]
    ELSE [d EXCEPT !.pc = "build"]

\* The server's state, which the deploy script does not touch.
ServerUnchanged ==
    UNCHANGED << config_cache, config_bookmarks, config_model, config_system,
                 ai_model, ai_system, ai_max_prompt, query_cache_lock,
                 bookmarks_lock, req, written, first_add, last_set_model >>

\* main() up to docker_stop's first command
DeployMain(stop) ==
    /\ deploy.pc = "idle"
    /\ deploy' = [NotRun EXCEPT !.pc = "ps", !.stop = stop]
    /\ ServerUnchanged

\* docker_process_by_name: docker ps, checked; cid is None when not found.
DockerProcessByName(ok, found) ==
    /\ deploy.pc = "ps"
    /\ deploy' = LET d == Issued(deploy, "ps", ok)
                 IN  IF ~ok THEN Raise(d)
                     ELSE IF found THEN [d EXCEPT !.pc = "stop"]
                     ELSE AfterStop(d)
    /\ ServerUnchanged

\* docker_stop: docker stop <cid>, checked.
DockerStop(ok) ==
    /\ deploy.pc = "stop"
    /\ deploy' = LET d == Issued(deploy, "stop", ok)
                 IN  IF ok THEN [d EXCEPT !.pc = "rm"] ELSE Raise(d)
    /\ ServerUnchanged

\* docker_stop: docker rm <cid>, with check=False.
DockerRm(ok) ==
    /\ deploy.pc = "rm"
    /\ deploy' = AfterStop(Issued(deploy, "rm", ok))
    /\ ServerUnchanged

\* docker_build_image: docker build, checked.
DockerBuildImage(ok) ==
    /\ deploy.pc = "build"
    /\ deploy' = LET d == Issued(deploy, "build", ok)
                 IN  IF ok THEN [d EXCEPT !.pc = "prune"] ELSE Raise(d)
    /\ ServerUnchanged

\* docker_image_prune: docker image prune, checked.  In the except block it
\* is the last statement, and main returns the status it started with.
DockerImagePrune(ok) ==
    /\ deploy.pc = "prune"
    /\ deploy' = LET d == Issued(deploy, "prune", ok)
                 IN  IF ~ok THEN Raise(d)
                     ELSE IF d.phase = "try" THEN [d EXCEPT !.pc = "run"]
                     ELSE [d EXCEPT !.pc = "returned"]
    /\ ServerUnchanged

\* docker_start: docker run, checked; then status = 0.
DockerStart(ok) ==
    /\ deploy.pc = "run"
    /\ deploy' = LET d == Issued(deploy, "run", ok)
                 IN  IF ok THEN [d EXCEPT !.pc = "returned", !.status = 0]
                     ELSE Raise(d)
    /\ ServerUnchanged

---------------------------------------------------------------------------
(* The state after SearchAPI.__init__. *)

\* Bookmark collections a configuration file can hold.
InitBookmarks ==
    { <<>>,
      << [url |-> Str("http://u1"), name |-> <<"x">>, shortcut |-> None] >>,
      << [url |-> Str("http://u1"), name |-> <<"g">>, shortcut |-> Some(<<"x">>)],
         [url |-> Str("http://u2"), name |-> <<"x">>, shortcut |-> None] >> }

Init ==
    /\ config_cache = [k \in {} |-> <<>>]
    /\ config_bookmarks \in InitBookmarks
    /\ config_model = Str("gpt-0")
    /\ config_system = Str("sys-0")
    /\ ai_model = config_model
    /\ ai_system = config_system
    /\ ai_max_prompt \in (0..MaxHistory) \cup {DEF_MAX_PROMPT}
    /\ query_cache_lock = 0
    /\ bookmarks_lock = 0
    /\ req = [p \in Procs |-> Idle]
    /\ written = [k \in {} |-> <<>>]
    /\ first_add = [n \in {} |-> None]
    /\ last_set_model = None
    /\ deploy = NotRun

---------------------------------------------------------------------------
(* Subreddit lookups: concurrent "r <term>" queries, one after another. *)

TermChars == {"x", "X"}
RedditTerms == SeqsUpTo(TermChars, MaxTermLen) \ {<<>>}

InitReddit ==
    /\ Init
    /\ config_bookmarks = <<>>
    /\ ai_max_prompt = DEF_MAX_PROMPT

NextReddit ==
    \E p \in Procs :
        \/ \E t \in RedditTerms : SearchRecv(p, Some(Pfx("r") \o t))
        \/ CacheLockRead(p)
        \/ CacheRead(p)
        \/ \E out \in ChatOutcomes : RedditChatReturn(p, out)
        \/ CacheLockWrite(p)
        \/ CacheWrite(p)
        \/ Reply(p)

SpecReddit == InitReddit /\ [][NextReddit]_vars

---------------------------------------------------------------------------
(* The router and the proxy on every short query, one request at a time. *)

QueryChars == {"a", "b", "c", "g", "i", "l", "m", "r", "w", " ", ".", "x"}
PrefixLetters == {"a", "b", "c", "g", "i", "l", "m", "r", "w"}

\* Every short query, and every "a <prefix>" query with a short remainder.
Queries ==
    SeqsUpTo(QueryChars, MaxQueryLen)
        \cup {Pfx("a") \o Pfx(c) \o t : c \in PrefixLetters, t \in {<<>>, <<"x">>}}

NoneInFlight == \A p \in Procs : req[p].pc = "idle"

InitRouter ==
    /\ Init
    /\ ai_max_prompt = DEF_MAX_PROMPT

\* GET /search with or without a q parameter, when nothing else is in flight.
RouterSearch(p) ==
    /\ NoneInFlight
    /\ \E rawq \in {None} \cup {Some(q) : q \in Queries} : SearchRecv(p, rawq)

\* GET /api/search with or without a q parameter, likewise.
RouterApiSearch(p) ==
    /\ NoneInFlight
    /\ \E rawq \in {None} \cup {Some(q) : q \in Queries} : ApiSearchRecv(p, rawq)

NextRouter ==
    \E p \in Procs :
        \/ RouterSearch(p)
        \/ RouterApiSearch(p)
        \/ FindBookmarkLock(p)
        \/ FindBookmarkReturn(p)
        \/ \E out \in GetOutcomes : GoogleGetReturn(p, out)
        \/ CacheLockRead(p)
        \/ CacheRead(p)
        \/ \E out \in ChatOutcomes : RedditChatReturn(p, out)
        \/ CacheLockWrite(p)
        \/ CacheWrite(p)

SpecRouter == InitRouter /\ [][NextRouter]_vars

---------------------------------------------------------------------------
(* The bookmark collection under concurrent adds, deletes and lookups. *)

InitBookmarking ==
    /\ Init
    /\ ai_max_prompt = DEF_MAX_PROMPT

NextBookmarking ==
    \E p \in Procs :
        \/ AddRecv(p)
        \/ \E user_data \in PostedBookmarks : AddBody(p, user_data)
        \/ AddLock(p)
        \/ AddCommit(p)
        \/ \E name \in {None, Some(<<"x">>), Some(<<"g">>)} : DelRecv(p, name)
        \/ DelLock(p)
        \/ DelCommit(p)
        \/ \E q \in {<<"x">>, <<"g">>} : SearchRecv(p, Some(Pfx("b") \o q))
        \/ FindBookmarkLock(p)
        \/ FindBookmarkReturn(p)
        \/ Reply(p)

SpecBookmarking == InitBookmarking /\ [][NextBookmarking]_vars

---------------------------------------------------------------------------
(* The command table on every posted command, one request at a time. *)

InitCmd ==
    /\ Init
    /\ config_bookmarks = <<>>

\* POST /api/cmd, when nothing else is in flight.
CmdNext(p) == NoneInFlight /\ CmdRecv(p)

NextCmd ==
    \E p \in Procs :
        \/ CmdNext(p)
        \/ \E user_data \in PostedCommands : CmdBody(p, user_data)
        \/ \E out \in ChatOutcomes : CmdChatReturn(p, out)
        \/ \E stdout \in {<<>>, Str(" 08:00:00 up 1 day")} : CmdUptimeReturn(p, stdout)
        \/ Reply(p)

SpecCmd == InitCmd /\ [][NextCmd]_vars

---------------------------------------------------------------------------
(* The session state under concurrent model and prompt commands. *)

SessionCommands ==
    [json : {TRUE}, cmd : {Some(Str("/model")), Some(Str("/prompt"))},
     args : Args, history : {<<>>}]

InitSession ==
    /\ Init
    /\ config_bookmarks = <<>>
    /\ ai_max_prompt = DEF_MAX_PROMPT

NextSession ==
    \E p \in Procs :
        \/ CmdRecv(p)
        \/ \E user_data \in SessionCommands : CmdBody(p, user_data)
        \/ Reply(p)

SpecSession == InitSession /\ [][NextSession]_vars

---------------------------------------------------------------------------
(* The whole gateway: searches, proxied searches and bookmark edits, run by *)
(* concurrent coroutines.                                                   *)

GatewayQueries == {Pfx(c) \o <<"x">> : c \in {"b", "l", "r"}}

InitGateway ==
    /\ Init
    /\ config_bookmarks = <<>>
    /\ ai_max_prompt = DEF_MAX_PROMPT

NextGateway ==
    \E p \in Procs :
        \/ \E q \in GatewayQueries : SearchRecv(p, Some(q))
        \/ ApiSearchRecv(p, Some(<<"x">>))
        \/ FindBookmarkLock(p)
        \/ FindBookmarkReturn(p)
        \/ \E out \in GetOutcomes : GoogleGetReturn(p, out)
        \/ CacheLockRead(p)
        \/ CacheRead(p)
        \/ \E out \in ChatOutcomes : RedditChatReturn(p, out)
        \/ CacheLockWrite(p)
        \/ CacheWrite(p)
        \/ AddRecv(p)
        \/ \E user_data \in PostedBookmarks : AddBody(p, user_data)
        \/ AddLock(p)
        \/ AddCommit(p)
        \/ DelRecv(p, Some(<<"x">>))
        \/ DelLock(p)
        \/ DelCommit(p)
        \/ Reply(p)

SpecGateway == InitGateway /\ [][NextGateway]_vars

---------------------------------------------------------------------------
(* The two locks under fair scheduling, with config.set failing at will.   *)

\* config.set raises inside the second block of get_sub_from_string: the
\* block is left, the exception goes through __rdr and search().
CacheWriteRaises(p) ==
    /\ req[p].pc = "cache_write"
    /\ query_cache_lock = p
    /\ query_cache_lock' = LockRelease(query_cache_lock, p)
    /\ req' = [req EXCEPT ![p] = Unhandled(@, "OSError")]
    /\ UNCHANGED << deploy, config_cache, config_bookmarks, config_model, config_system,
                    ai_model, ai_system, ai_max_prompt, bookmarks_lock,
                    written, first_add, last_set_model >>

\* config.set raises inside the block of api_bookmarks_add: the block is
\* left, the last except clause answers BAD_REQUEST.
AddCommitRaises(p) ==
    /\ req[p].pc = "add_crit"
    /\ bookmarks_lock = p
    /\ ~NameExists(config_bookmarks, req[p].bookmark[1].name)
    /\ bookmarks_lock' = LockRelease(bookmarks_lock, p)
    /\ req' = [req EXCEPT ![p] = Respond(@, "BAD_REQUEST")]
    /\ UNCHANGED << deploy, config_cache, config_bookmarks, config_model, config_system,
                    ai_model, ai_system, ai_max_prompt, query_cache_lock,
                    written, first_add, last_set_model >>

\* config.set raises inside the block of api_bookmarks_del: the block is
\* left, the exception leaves the handler.
DelCommitRaises(p) ==
    /\ req[p].pc = "del_crit"
    /\ bookmarks_lock = p
    /\ DelBookmark(config_bookmarks, req[p].arg).found
    /\ bookmarks_lock' = LockRelease(bookmarks_lock, p)
    /\ req' = [req EXCEPT ![p] = Unhandled(@, "OSError")]
    /\ UNCHANGED << deploy, config_cache, config_bookmarks, config_model, config_system,
                    ai_model, ai_system, ai_max_prompt, query_cache_lock,
                    written, first_add, last_set_model >>

LockQueries == {Pfx(c) \o <<"x">> : c \in {"b", "r"}}

\* One completion and one failure; one bookmark.
LockChatOutcomes ==
    {[raised |-> FALSE, content |-> Some(Str("/r/foo"))],
     [raised |-> TRUE, content |-> None]}
LockBookmarks ==
    {[json |-> TRUE, url |-> Some(Str("http://u1")), name |-> Some(<<"x">>),
      shortcut |-> None]}

InitLocks ==
    /\ Init
    /\ config_bookmarks = <<>>
    /\ ai_max_prompt = DEF_MAX_PROMPT

NextLocks ==
    \E p \in Procs :
        \/ \E q \in LockQueries : SearchRecv(p, Some(q))
        \/ FindBookmarkLock(p)
        \/ FindBookmarkReturn(p)
        \/ CacheLockRead(p)
        \/ CacheRead(p)
        \/ \E out \in LockChatOutcomes : RedditChatReturn(p, out)
        \/ CacheLockWrite(p)
        \/ CacheWrite(p)
        \/ CacheWriteRaises(p)
        \/ AddRecv(p)
        \/ \E user_data \in LockBookmarks : AddBody(p, user_data)
        \/ AddLock(p)
        \/ AddCommit(p)
        \/ AddCommitRaises(p)
        \/ DelRecv(p, Some(<<"x">>))
        \/ DelLock(p)
        \/ DelCommit(p)
        \/ DelCommitRaises(p)
        \/ Reply(p)

\* The event loop resumes every coroutine that can run: a coroutine inside
\* a block leaves it (it awaits nothing there), and asyncio.Lock wakes its
\* waiters in the order they came, so a waiter is not passed over for ever.
FairLocks ==
    \A p \in Procs :
        /\ WF_vars(\/ CacheRead(p)
                    \/ CacheWrite(p) \/ CacheWriteRaises(p)
                    \/ FindBookmarkReturn(p)
                    \/ AddCommit(p) \/ AddCommitRaises(p)
                    \/ DelCommit(p) \/ DelCommitRaises(p))
        /\ SF_vars(\/ CacheLockRead(p) \/ CacheLockWrite(p)
                    \/ FindBookmarkLock(p)
                    \/ AddLock(p) \/ DelLock(p))

SpecLocks == InitLocks /\ [][NextLocks]_vars /\ FairLocks

---------------------------------------------------------------------------
(* One run of the deploy script, every command succeeding or failing. *)

InitDeploy ==
    /\ Init
    /\ config_bookmarks = <<>>
    /\ ai_max_prompt = DEF_MAX_PROMPT

NextDeploy ==
    \/ \E stop \in BOOLEAN : DeployMain(stop)
    \/ \E ok, found \in BOOLEAN : DockerProcessByName(ok, found)
    \/ \E ok \in BOOLEAN : DockerStop(ok)
    \/ \E ok \in BOOLEAN : DockerRm(ok)
    \/ \E ok \in BOOLEAN : DockerBuildImage(ok)
    \/ \E ok \in BOOLEAN : DockerImagePrune(ok)
    \/ \E ok \in BOOLEAN : DockerStart(ok)

SpecDeploy == InitDeploy /\ [][NextDeploy]_vars

---------------------------------------------------------------------------
(* The claims. *)

\* The retry ceiling the design gives the search client (maxAttempts).
maxAttempts == 5

IsSubredditQuery(r) == r.route = "search" /\ StartsWith(r.q, Pfx("r"))

Unprefixed(q) == \A c \in PrefixLetters : ~StartsWith(q, Pfx(c))

\* The provider answered and the answer holds no item.
ZeroItems(r) ==
    /\ r.gcse_data # None
    /\ ~r.gcse_data[1].empty
    /\ (r.gcse_data[1].items = None \/ Len(r.gcse_data[1].items[1]) = 0)

\* C1, as amended.  What a lookup of "r X" writes is stored under
\* /reddit/cache/<lower-cased X>: every key holds the message of the last
\* lookup that wrote it.  A lookup of X, in whatever letter case, that finds
\* a non-empty value under the lower-cased key answers with that value and
\* makes no chat call; one that finds nothing there makes exactly one.
C1_CachedLookup ==
    /\ \A k \in DOMAIN written : ConfigGetCache(config_cache, k) = written[k]
    /\ \A p \in Procs :
         LET r == req[p]
         IN  IsSubredditQuery(r) /\ r.found # None =>
               IF r.found[1] # <<>>
               THEN /\ r.nchat = 0
                    /\ r.pc = "done"
                    /\ r.status = "FOUND"
                    /\ r.location = Some(Reddit(r.found[1]))
               ELSE r.nchat = 1

\* C1, witness: a lookup spelled with a capital letter was answered from
\* the value an earlier lookup stored, without a chat call.
C1_Witness ==
    \E p \in Procs :
        /\ IsSubredditQuery(req[p])
        /\ req[p].pc = "done"
        /\ req[p].arg # Lower(req[p].arg)
        /\ Lower(req[p].arg) \in DOMAIN written
        /\ req[p].found = Some(Str("/r/foo"))
        /\ req[p].nchat = 0

\* C1, as stated.  A lookup of X that arrives after a lookup of X (in any
\* letter case) has called the resolver and stored its result makes no
\* chat call.
C1_Original ==
    \A p \in Procs :
        IsSubredditQuery(req[p]) /\ req[p].after => req[p].nchat = 0

\* C2, as stated.  A lookup whose chat call gave no result (the completion
\* has no content, or the call raised) writes nothing to the cache.
C2_NoNegativeCaching ==
    \A p \in Procs :
        IsSubredditQuery(req[p]) /\ req[p].upstream \in {"no_content", "raised"}
            => ~req[p].persisted

\* C3, as stated.  A query "l X" for which the provider returns zero items
\* (no items field, or an empty array) ends with no redirect, the default
\* page, and no exception.
C3_ZeroItemsNoRedirect ==
    \A p \in Procs :
        LET r == req[p]
        IN  r.route = "search" /\ StartsWith(r.q, Pfx("l")) /\ r.pc = "done"
              /\ ZeroItems(r)
              => r.exc = "" /\ r.status = "OK" /\ r.location = None

\* C4, as stated.  A request whose search-provider call failed with a
\* connection-level error has made exactly maxAttempts attempts.
C4_ExactlyMaxAttempts ==
    \A p \in Procs :
        req[p].pc = "done" /\ req[p].upstream = "conn_error"
            => req[p].nget = maxAttempts

\* C5, as stated.  A search-provider call that failed for good reaches
\* /api/search as an empty result, which it answers with NOT_FOUND; no
\* exception leaves the client or the handler.
C5_FailureIsEmptyResult ==
    \A p \in Procs :
        req[p].route = "api_search" /\ req[p].pc = "done"
            /\ req[p].upstream = "conn_error"
            => req[p].exc = "" /\ req[p].status = "NOT_FOUND"

C7_AmazonFirstMatch ==
    \A p \in Procs :
        LET r == req[p]
        IN  r.route = "search" /\ r.pc = "done" /\ StartsWith(r.q, Pfx("a"))
              => /\ r.status = "FOUND"
                 /\ r.location = Some(Amazon(Drop2(r.q)))
                 /\ r.nget = 0 /\ r.nchat = 0

\* C8.  No two stored bookmarks have the same name, and once a bookmark of
\* a name has been added to a collection that held none of that name, the
\* collection holds exactly the bookmark that first add wrote, however many
\* adds of the name follow or run beside it.
C8_AddIdempotent ==
    /\ \A i, j \in 1..Len(config_bookmarks) :
         config_bookmarks[i].name = config_bookmarks[j].name => i = j
    /\ \A n \in DOMAIN first_add :
         \E i \in 1..Len(config_bookmarks) : config_bookmarks[i] = first_add[n]

\* C8, witness: two adds of one name with different urls have both been
\* answered OK, and the collection holds the bookmark of the first.
C8_Witness ==
    \E p, o \in Procs :
        /\ req[p].route = "bm_add" /\ req[p].pc = "done" /\ req[p].status = "OK"
        /\ req[o].route = "bm_add" /\ req[o].pc = "done" /\ req[o].status = "OK"
        /\ req[p].bookmark[1].name = req[o].bookmark[1].name
        /\ req[p].bookmark[1].url # req[o].bookmark[1].url
        /\ req[p].bookmark[1].name \in DOMAIN first_add
        /\ first_add[req[p].bookmark[1].name] = req[p].bookmark[1]

\* C9.  After a model command with a non-empty argument v, the current
\* model and the value persisted at /openai/model are both v, and the
\* command answers v; a model command with an empty argument answers the
\* argument of the last set-model command before it.
C9_ModelSetGet ==
    /\ last_set_model # None
         => ai_model = last_set_model[1] /\ config_model = last_set_model[1]
    /\ \A p \in Procs :
         LET r == req[p]
         IN  r.route = "cmd" /\ r.pc = "done" /\ r.cmd = Str("/model")
               => /\ r.status = "OK"
                  /\ r.args # <<>> => r.data = r.args
                  /\ r.args = <<>> /\ r.expect # None => r.data = r.expect[1]

\* C9, witness: a model command with an empty argument has answered the
\* argument of an earlier set-model command.
C9_Witness ==
    \E p \in Procs :
        /\ req[p].route = "cmd" /\ req[p].pc = "done"
        /\ req[p].cmd = Str("/model")
        /\ req[p].args = <<>>
        /\ req[p].expect = Some(Str("gpt-x"))
        /\ req[p].data = Str("gpt-x")

\* C10.  A chat command with empty args makes no chat-completion call: it
\* ends at once with BAD_REQUEST and the error "Missing message", whatever
\* its history.
C10_EmptyChatNoUpstream ==
    \A p \in Procs :
        LET r == req[p]
        IN  r.route = "cmd" /\ r.cmd = Str("/chat") /\ r.args = <<>>
              => /\ r.nchat = 0
                 /\ r.pc = "done"
                 /\ r.status = "BAD_REQUEST"
                 /\ r.error = Str("Missing message")

\* C10, witness: a chat command with empty args and a history of the
\* longest length has been refused.
C10_Witness ==
    \E p \in Procs :
        /\ req[p].route = "cmd" /\ req[p].cmd = Str("/chat")
        /\ req[p].args = <<>>
        /\ Len(req[p].history) = MaxHistory
        /\ req[p].pc = "done"
        /\ req[p].status = "BAD_REQUEST"

\* The model and prompt commands, and what each of them may touch.
IsGetSet(r) == r.route = "cmd" /\ r.cmd \in {Str("/model"), Str("/prompt")}

\* C11.  A step in which a model or prompt command runs leaves every other
\* request, the cache, the bookmarks, the locks and max_prompt as they
\* were.  With empty args it answers the current in-memory value and
\* changes neither the in-memory nor the persisted model and prompt; with
\* non-empty args it sets its own field, in memory and persisted, to args,
\* answers args, and leaves the other field alone.
C11_GetSetFrame ==
    [][\A p \in Procs :
         req[p].pc = "cmd_json" /\ req'[p].pc = "done" /\ IsGetSet(req'[p]) =>
           LET r == req'[p]
               model == r.cmd = Str("/model")
           IN  /\ \A o \in Procs \ {p} : req'[o] = req[o]
               /\ UNCHANGED << config_cache, config_bookmarks, ai_max_prompt,
                               query_cache_lock, bookmarks_lock >>
               /\ r.status = "OK" /\ r.error = <<>>
               /\ r.nchat = 0 /\ r.nget = 0
               /\ IF r.args = <<>>
                  THEN /\ UNCHANGED << ai_model, config_model,
                                       ai_system, config_system >>
                       /\ r.data = IF model THEN ai_model ELSE ai_system
                  ELSE /\ r.data = r.args
                       /\ IF model
                          THEN /\ ai_model' = r.args /\ config_model' = r.args
                               /\ UNCHANGED << ai_system, config_system >>
                          ELSE /\ ai_system' = r.args /\ config_system' = r.args
                               /\ UNCHANGED << ai_model, config_model >>
    ]_vars

\* C11, witness: a prompt command with empty args has answered a prompt
\* that an earlier command set, while a model command has set the model.
C11_Witness ==
    \E p, o \in Procs :
        /\ req[p].route = "cmd" /\ req[p].pc = "done"
        /\ req[p].cmd = Str("/prompt") /\ req[p].args = <<>>
        /\ req[p].data = Str("gpt-y") /\ ai_system = Str("gpt-y")
        /\ req[o].route = "cmd" /\ req[o].pc = "done"
        /\ req[o].cmd = Str("/model") /\ req[o].args = Str("gpt-x")
        /\ ai_model = Str("gpt-x") /\ ai_system # ai_model

\* The request carries a command name that no entry of the table has.
IsUnknownCommand(r) ==
    /\ r.route = "cmd"
    /\ r.cmd # <<>>
    /\ \A i \in 1..Len(Commands) : Commands[i].name # r.cmd

C13_ResetNotImplemented ==
    [][\A p \in Procs :
         /\ req[p].pc = "cmd_json" /\ req'[p] # req[p]
         /\ req'[p].cmd \in {Str("/reset"), Str("/clear")}
         => LET r == req'[p]
            IN  /\ r.pc = "done" /\ r.status = "NOT_IMPLEMENTED"
                /\ r.error = Str("Should be implemented in JS")
                /\ r.data = <<>> /\ r.exc = ""
                /\ r.nchat = 0 /\ r.nget = 0
                /\ \A o \in Procs \ {p} : req'[o] = req[o]
                /\ UNCHANGED << config_cache, config_bookmarks, config_model,
                                config_system, ai_model, ai_system, ai_max_prompt,
                                query_cache_lock, bookmarks_lock, last_set_model >>
    ]_vars

\* C13, witness: a clear command with args and the longest history was
\* answered NOT_IMPLEMENTED.
C13_Witness ==
    \E p \in Procs :
        /\ req[p].route = "cmd" /\ req[p].pc = "done"
        /\ req[p].cmd = Str("/clear")
        /\ req[p].args # <<>> /\ Len(req[p].history) = MaxHistory
        /\ req[p].status = "NOT_IMPLEMENTED"
        /\ req[p].error # <<>>

\* C14.  Every cache key holds the message of the lookup that wrote it
\* last, and every lookup that missed and whose chat call returned answers
\* with the message of its own chat call, whatever other lookups of the key
\* wrote meanwhile.
C14_LastWriteWins ==
    /\ \A k \in DOMAIN written : ConfigGetCache(config_cache, k) = written[k]
    /\ \A p \in Procs :
         LET r == req[p]
         IN  IsSubredditQuery(r) /\ r.pc = "done" /\ r.nchat = 1
               /\ r.upstream # "raised"
               => /\ r.persisted
                  /\ r.status = "FOUND"
                  /\ r.location = Some(Reddit(r.msg))

\* C14, witness: two lookups of one key both missed, both called the
\* resolver and got different messages; both have finished, the key holds
\* the message of the one that wrote last, and the other was answered with
\* its own message.
C14_Witness ==
    \E p, o \in Procs :
        /\ IsSubredditQuery(req[p]) /\ req[p].pc = "done"
        /\ IsSubredditQuery(req[o]) /\ req[o].pc = "done"
        /\ Lower(req[p].arg) = Lower(req[o].arg)
        /\ req[p].found = Some(<<>>) /\ req[o].found = Some(<<>>)
        /\ req[p].nchat = 1 /\ req[o].nchat = 1
        /\ req[p].persisted /\ req[o].persisted
        /\ req[p].msg # req[o].msg
        /\ ConfigGetCache(config_cache, Lower(req[o].arg)) = req[o].msg
        /\ req[p].location = Some(Reddit(req[p].msg))

\* The request is suspended on the network: on the chat completion, on the
\* search provider, or on the body of its own HTTP request.
AwaitingNetwork(r) == r.pc \in {"chat", "get", "add_json", "cmd_json"}

\* C15.  A request that awaits an upstream chat or search call, or its
\* request body, holds neither the cache lock nor the bookmarks lock: the
\* cache lock is held only in the read and the write of the cache, the
\* bookmarks lock only in the scan, the add and the removal.
C15_NoLockAcrossNetwork ==
    \A p \in Procs :
        /\ AwaitingNetwork(req[p]) => query_cache_lock # p /\ bookmarks_lock # p
        /\ query_cache_lock = p => req[p].pc \in {"cache_read", "cache_write"}
        /\ bookmarks_lock = p => req[p].pc \in {"bm_find", "add_crit", "del_crit"}

\* C15, witness: one request awaits the chat completion after its cache
\* read while another holds the cache lock, and the bookmarks lock is free.
C15_Witness ==
    \E p, o \in Procs :
        /\ req[p].pc = "chat" /\ req[p].found # None
        /\ query_cache_lock = o /\ o # p
        /\ bookmarks_lock = 0

\* C16.  A request has a session to the search provider open exactly while
\* it awaits the provider, and no two requests have the same session: a
\* session opened for a request is the session of no other request until
\* the request has closed it.
C16_NoSharedConnection ==
    \A p \in Procs :
        /\ req[p].session # 0 <=> req[p].pc = "get"
        /\ \A o \in Procs \ {p} :
             req[p].session # 0 => req[o].session # req[p].session

\* C16, witness: a search and a proxied search await the provider at the
\* same time, each on a session of its own.
C16_Witness ==
    \E p, o \in Procs :
        /\ req[p].route = "search" /\ req[p].pc = "get" /\ req[p].session # 0
        /\ req[o].route = "api_search" /\ req[o].pc = "get" /\ req[o].session # 0
        /\ req[p].session # req[o].session

\* C17.  The step in which a query "b X" scans the bookmarks redirects to
\* the url of the first stored bookmark whose name or shortcut is X, and
\* serves the default page with no redirect when no stored bookmark has;
\* no step of a search changes the bookmark collection.
C17_BookmarkLookup ==
    [][\A p \in Procs :
         /\ req'[p].route = "search" /\ req'[p] # req[p]
            => config_bookmarks' = config_bookmarks
         /\ req[p].pc = "bm_find" /\ req'[p].pc = "done"
              /\ StartsWith(req[p].q, Pfx("b"))
            => LET X == Drop2(req[p].q)
                   has(i) == \/ config_bookmarks[i].name = X
                             \/ config_bookmarks[i].shortcut = Some(X)
                   r == req'[p]
               IN  IF \E i \in 1..Len(config_bookmarks) : has(i)
                   THEN \E i \in 1..Len(config_bookmarks) :
                          /\ has(i)
                          /\ \A j \in 1..(i - 1) : ~has(j)
                          /\ r.status = "FOUND"
                          /\ r.location = Some(config_bookmarks[i].url)
                   ELSE r.status = "OK" /\ r.location = None /\ r.exc = ""
    ]_vars

\* C17, witness: "b x" was redirected to the url of a bookmark whose
\* shortcut is x, stored before a bookmark whose name is x.
C17_Witness ==
    \E p \in Procs :
        /\ req[p].route = "search" /\ req[p].pc = "done"
        /\ req[p].q = Pfx("b") \o <<"x">>
        /\ Len(config_bookmarks) >= 2
        /\ config_bookmarks[1].shortcut = Some(<<"x">>)
        /\ config_bookmarks[1].name # <<"x">>
        /\ config_bookmarks[2].name = <<"x">>
        /\ config_bookmarks[2].url # config_bookmarks[1].url
        /\ req[p].status = "FOUND"
        /\ req[p].location = Some(config_bookmarks[1].url)

\* The last n turns of a history, in their order.
LastOf(history, n) ==
    SubSeq(history, Len(history) - (IF n < Len(history) THEN n ELSE Len(history)) + 1,
           Len(history))

\* C18, as stated, for a maximum N of one turn or more.  The messages a chat
\* command with non-empty args sends upstream are the system prompt, the
\* last N turns of the supplied history in their order, and then the new
\* user turn carrying args.
C18_ChatMessages ==
    \A p \in Procs :
        LET r == req[p]
        IN  r.route = "cmd" /\ r.cmd = Str("/chat") /\ r.pc = "chat"
              /\ ai_max_prompt >= 1
              => r.msgs = << [role |-> "system", content |-> ai_system] >>
                            \o LastOf(r.history, ai_max_prompt)
                            \o << [role |-> "user", content |-> r.args] >>

\* C19, as stated.  A query "r X" that missed the cache and whose chat call
\* gave no usable value (the completion has no content, or the call raised)
\* ends with no redirect, the default page, and no error.
C19_ResolveFailureNoRedirect ==
    \A p \in Procs :
        LET r == req[p]
        IN  IsSubredditQuery(r) /\ r.pc = "done" /\ r.found = Some(<<>>)
              /\ r.upstream \in {"no_content", "raised"}
              => r.status = "OK" /\ r.location = None /\ r.exc = ""

\* C20.  In every state the in-memory model is the model persisted at
\* /openai/model and the in-memory prompt is the prompt persisted at
\* /openai/system; once a set-model command has run, both the in-memory
\* and the persisted model are the argument of the set-model command that
\* ran last.
C20_MemoryIsPersisted ==
    /\ ai_model = config_model
    /\ ai_system = config_system
    /\ last_set_model # None =>
         ai_model = last_set_model[1] /\ config_model = last_set_model[1]

\* C20, witness: two set-model commands with different arguments were in
\* flight together, both have been answered, and the in-memory and the
\* persisted model are the argument of the later one; the prompt has been
\* set as well.
C20_Witness ==
    \E p, o \in Procs :
        /\ p # o
        /\ req[p].route = "cmd" /\ req[p].pc = "done" /\ req[p].cmd = Str("/model")
        /\ req[o].route = "cmd" /\ req[o].pc = "done" /\ req[o].cmd = Str("/model")
        /\ req[p].args # <<>> /\ req[o].args # <<>> /\ req[p].args # req[o].args
        /\ req[p].data = req[p].args /\ req[o].data = req[o].args
        /\ last_set_model = Some(req[o].args)
        /\ ai_model = req[o].args /\ config_model = req[o].args
        /\ ai_system # Str("sys-0") /\ config_system = ai_system

\* C21.  No two stored bookmarks have the same name, in any state that
\* concurrent adds, deletes and lookups reach from a stored collection
\* whose names are unique.
C21_NamesUnique ==
    \A i, j \in 1..Len(config_bookmarks) :
        i # j => config_bookmarks[i].name # config_bookmarks[j].name

\* C21, witness: an add of a name that was stored already has been
\* answered OK beside a finished delete, and the collection holds three
\* bookmarks.
C21_Witness ==
    \E p, o \in Procs :
        /\ req[p].route = "bm_add" /\ req[p].pc = "done" /\ req[p].status = "OK"
        /\ \E i \in 1..Len(config_bookmarks) :
             /\ config_bookmarks[i].name = req[p].bookmark[1].name
             /\ config_bookmarks[i].url # req[p].bookmark[1].url
        /\ req[o].route = "bm_del" /\ req[o].pc = "done"
        /\ Len(config_bookmarks) = 3

\* C22.  The step in which a delete of the name n commits removes the first
\* stored bookmark named n, keeps every other bookmark in its order and
\* answers OK; when no bookmark is named n it changes nothing and answers
\* NOT_FOUND.  A lookup "b n" whose scan runs after a delete of n, with no
\* add of n since and n the shortcut of no bookmark, ends with no redirect.
C22_DeleteByName ==
    [][\A p \in Procs :
         /\ req[p].pc = "del_crit" /\ req'[p].pc = "done"
            => LET n == req[p].arg
                   has(i) == config_bookmarks[i].name = n
                   r == req'[p]
               IN  IF \E i \in 1..Len(config_bookmarks) : has(i)
                   THEN \E i \in 1..Len(config_bookmarks) :
                          /\ has(i)
                          /\ \A j \in 1..(i - 1) : ~has(j)
                          /\ config_bookmarks' =
                               [k \in 1..(Len(config_bookmarks) - 1) |->
                                  IF k < i THEN config_bookmarks[k]
                                           ELSE config_bookmarks[k + 1]]
                          /\ r.status = "OK"
                   ELSE /\ config_bookmarks' = config_bookmarks
                        /\ r.status = "NOT_FOUND"
         /\ req[p].pc = "bm_find" /\ req'[p].pc = "done"
              /\ StartsWith(req[p].q, Pfx("b"))
              /\ (\E o \in Procs : /\ req[o].route = "bm_del" /\ req[o].pc = "done"
                                    /\ req[o].status \in {"OK", "NOT_FOUND"}
                                    /\ req[o].arg = Drop2(req[p].q))
              /\ Drop2(req[p].q) \notin DOMAIN first_add
              /\ (\A i \in 1..Len(config_bookmarks) :
                     config_bookmarks[i].shortcut # Some(Drop2(req[p].q)))
            => req'[p].status = "OK" /\ req'[p].location = None
    ]_vars

\* C22, witness: a delete of g removed the first of two bookmarks and was
\* answered OK, the bookmark x is left, and a lookup "b g" that followed
\* was served the default page.
C22_Witness ==
    \E p, o \in Procs :
        /\ req[o].route = "bm_del" /\ req[o].pc = "done"
        /\ req[o].arg = <<"g">> /\ req[o].status = "OK"
        /\ Len(config_bookmarks) = 1 /\ config_bookmarks[1].name = <<"x">>
        /\ req[p].route = "search" /\ req[p].pc = "done"
        /\ req[p].q = Pfx("b") \o <<"g">>
        /\ req[p].status = "OK" /\ req[p].location = None

\* C23, as stated, and even with the new user turn of a chat command left
\* out of the count.  The messages of an upstream chat request, without
\* the leading system prompt and the new user turn, are never more than
\* the configured maximum max_prompt, whatever the history and the maximum.
C23_AtMostMaxTurns ==
    \A p \in Procs :
        req[p].route = "cmd" /\ req[p].pc = "chat"
            => Len(req[p].msgs) - 2 <= ai_max_prompt

\* The request waits for a lock; the request is inside a block of a lock.
LockWaiting(r) ==
    r.pc \in {"cache_lock", "cache_lock2", "bm_lock", "add_lock", "del_lock"}
InCritical(r) ==
    r.pc \in {"cache_read", "cache_write", "bm_find", "add_crit", "del_crit"}

\* C24.  No request holds the cache lock and the bookmarks lock together;
\* a request holds a lock only inside the block that took it, so a request
\* that has returned, from a cache hit or by an exception raised in the
\* block, holds none; and under fair scheduling every request that waits
\* for a lock gets it and every lock that is held is released.
C24_LockDiscipline ==
    /\ [](\A p \in Procs :
            /\ ~(query_cache_lock = p /\ bookmarks_lock = p)
            /\ query_cache_lock = p <=> req[p].pc \in {"cache_read", "cache_write"}
            /\ bookmarks_lock = p <=> req[p].pc \in {"bm_find", "add_crit", "del_crit"})
    /\ \A p \in Procs : LockWaiting(req[p]) ~> InCritical(req[p])
    /\ \A p \in Procs : (query_cache_lock = p \/ bookmarks_lock = p)
                            ~> (query_cache_lock # p /\ bookmarks_lock # p)

\* C24, witness: a request was ended by an exception raised inside a block
\* of the cache lock, another request holds that lock now, and a third
\* party to the bookmarks lock is absent: the lock is free.
C24_Witness ==
    \E p, o \in Procs :
        /\ req[p].pc = "done" /\ req[p].exc = "OSError"
        /\ IsSubredditQuery(req[p])
        /\ o # p /\ query_cache_lock = o /\ req[o].pc = "cache_write"
        /\ bookmarks_lock = 0

\* A command whose failure makes exec_cmd raise has failed.
StepFailed(c) == ~c.ok /\ c.cmd # "rm"

\* The container start is issued at most once, and only after a docker ps,
\* a build and a prune that were issued in this order and with no failed
\* step before the start.
StartOnceAfterAll ==
    LET h == deploy.issued
    IN  /\ Cardinality({i \in 1..Len(h) : h[i].cmd = "run"}) <= 1
        /\ \A i \in 1..Len(h) :
             h[i].cmd = "run" =>
               /\ \A k \in 1..(i - 1) : ~StepFailed(h[k])
               /\ \E s, b, q \in 1..(i - 1) :
                    /\ s < b /\ b < q
                    /\ h[s].cmd = "ps" /\ h[b].cmd = "build" /\ h[q].cmd = "prune"

\* The run ends with status 0 only if no step it issued has failed.
ZeroOnlyIfAllSucceeded ==
    deploy.pc \in {"returned", "crashed"} /\ deploy.status = 0
        => \A k \in 1..Len(deploy.issued) : ~StepFailed(deploy.issued[k])

\* Once a step has failed no start is issued; the run ends with a status
\* other than 0, and when main returns, the except block has issued a
\* docker ps, a build and a prune in this order.
CleanupOnFailure ==
    LET h == deploy.issued
    IN  (\E k \in 1..Len(h) : StepFailed(h[k])) =>
          /\ \A i \in 1..Len(h) : h[i].phase = "cleanup" => h[i].cmd # "run"
          /\ deploy.pc \in {"returned", "crashed"} => deploy.status # 0
          /\ deploy.pc = "returned" =>
               \E s, b, q \in 1..Len(h) :
                 /\ s < b /\ b < q
                 /\ h[s].phase = "cleanup" /\ h[s].cmd = "ps"
                 /\ h[b].phase = "cleanup" /\ h[b].cmd = "build"
                 /\ h[q].phase = "cleanup" /\ h[q].cmd = "prune"

\* With --stop neither a build nor a prune nor a start is issued.
StopOnly ==
    deploy.stop =>
        \A k \in 1..Len(deploy.issued) :
            deploy.issued[k].cmd \notin {"build", "prune", "run"}

\* C25, as stated.  In one run of the deploy script the start is issued at
\* most once and only after stop, build and prune have succeeded in this
\* order; the run ends with status 0 only if every step succeeded; when a
\* step fails the cleanup sequence stop, build, prune runs with no start
\* and the status is not 0; with --stop no build, prune or start is issued.
C25_DeploySequencing ==
    /\ StartOnceAfterAll
    /\ ZeroOnlyIfAllSucceeded
    /\ CleanupOnFailure
    /\ StopOnly

====
